---- MODULE Spec2Model ----
(***************************************************************************)
(* Model of the dials simulation engine: DialRange, PathSegment, the       *)
(* random path generator, Dial (update / reset) and the simulation loop    *)
(* `model` with its alarm queue.                                           *)
(*                                                                         *)
(* Numbers.  The program computes in f32.  Here dial values are integers   *)
(* in the program's own units (a default range is 200..4200), time is an   *)
(* integer number of seconds, a random f32 in [0,1) is an integer number   *)
(* of thousandths in 0..999, and the sigmoid is a table in ten-thousandths *)
(* interpolated linearly between integer arguments, which are carried in   *)
(* hundredths.                                                             *)
(***************************************************************************)
EXTENDS Integers, Sequences, FiniteSets, TLC

VARIABLES
    dials,          \* AppState.dials: dial index -> Dial
    queued_alarms,  \* AppState.queued_alarms
    pressed_key,    \* AppState.pressed_key ("none" for None)
    now,            \* simulated wall clock: sum of the delta_time of all ticks
    last_op,        \* history: the last call on a dial, [op, dial, delta_time]
                    \*   (kept where one dial is driven by itself)
    ret,            \* history: dial index -> return value of its last update
    fired,          \* history: dial index -> number of true returns since its
                    \*   construction or last reset (2 stands for "2 or more")
    resets,         \* history: dial index -> number of reset() calls so far
    elapsed,        \* history: dial index -> sum of the delta_time of its updates
                    \*   since its construction (kept by timed trials only)
    init_paths,     \* history: dial index -> trial_paths at construction
    last_seg,       \* history: dial index -> segment read by its last update
    raised,         \* history: alarms raised by the last tick of the loop
    popped,         \* history: alarm popped by the last tick, or NoAlarm
    reaction,       \* history: reaction record printed by the last tick
    fn_in,          \* the arguments of a function that is run by itself
    fn_out,         \* its result, [done, value]
    mutex,          \* STATE's Mutex: [holder, poisoned]
    model_pc,       \* where the simulation loop's thread is in its iteration
    ui_pc,          \* where the rendering/input loop's thread is in its iteration
    tick,           \* the locals of the simulation loop's iteration:
                    \*   [delta_time, next, alarms, alarm]
    skipped         \* history: an iteration went by without the tick's body

pure_vars == <<fn_in, fn_out>>

lock_vars == <<mutex, model_pc, ui_pc, tick, skipped>>

vars == <<dials, queued_alarms, pressed_key, now, last_op, ret, fired, resets,
          elapsed, init_paths, last_seg, raised, popped, reaction, pure_vars,
          lock_vars>>

-----------------------------------------------------------------------------
(* Program constants *)

MAX_PATH_SEGMENTS == 8
MIN_PATH_SEGMENTS == 4
SLIGHTLY_OUT_MAX == 400
DRIFT_RATE == 20
X_OFFSET == -5
RANGE_SIZE == 4000
RANGE_STEP == 200

(* Bounds of the model *)
MaxTrials == 2         \* trials per dial at construction
MaxSegmentTime == 150  \* no update moves a dial's segment_time past this
MaxElapsed == 600      \* no update of a timed trial moves `elapsed` past this
MaxTime == 700         \* no tick of the loop moves `now` past this
MaxQueue == 3          \* no tick starts that would grow the queue past this

NumDials == 2
DialIds == 0 .. (NumDials - 1)
DeltaTimes == {21, 42}       \* delta_time of one update, seconds
TrialDeltaTimes == {7, 21}   \* delta_time of one update of a timed trial, seconds
LoopDeltaTimes == {42, 84}   \* delta_time of one tick of the loop, seconds
TrialTimes == {420}          \* trial_times entries, seconds
Keys == {"1", "2"}
NoSeg == [start |-> 0, end |-> 0, duration |-> 0]
NoAlarm == [dial_id |-> -1, time |-> -1, correct_key |-> "none"]
NoReaction == [dial_id |-> -1, millis |-> -1, correct |-> FALSE, key |-> "none"]
NoCall == [fn |-> "none"]
NoResult == [done |-> FALSE, value |-> <<>>]
NoTick == [delta_time |-> 0, next |-> 0, alarms |-> <<>>, alarm |-> NoAlarm]

Min(a, b) == IF a <= b THEN a ELSE b
Max(a, b) == IF a >= b THEN a ELSE b

-----------------------------------------------------------------------------
(* DialRange *)

DialRange(start, end) == [start |-> start, end |-> end]

contains(range, value) == value <= range.end /\ value >= range.start

middle(range) == (range.end - range.start) \div 2 + range.start

\* random_near as it would be without the turn back into the range
random_near_no_turn(range, value, decrease, r) ==
    LET random_magnitude == ((range.end - range.start) * r) \div 1000
        half == random_magnitude \div 2
    IN  value + (IF decrease THEN 0 - half ELSE half)

\* decrease: the random bool; r: the random f32, in thousandths
random_near(range, value, decrease, r) ==
    LET random_magnitude == ((range.end - range.start) * r) \div 1000
        half == random_magnitude \div 2
        tamed_magnitude == IF decrease THEN 0 - half ELSE half
    IN  IF ~contains(range, value + tamed_magnitude)
        THEN value - tamed_magnitude
        ELSE value + tamed_magnitude

random_in(range, r) == range.start + ((range.end - range.start) * r) \div 1000

slightly_out(range, value, r) ==
    LET halfway == (range.end - range.start) \div 2 + range.start
        amount == (r * SLIGHTLY_OUT_MAX) \div 1000
    IN  IF value <= halfway THEN range.start - amount ELSE range.end + amount

-----------------------------------------------------------------------------
(* PathSegment *)

\* 1 / (1 + exp(-a)) at the integers -5..5, in ten-thousandths
SigmoidTable ==
    [k \in -5 .. 5 |->
        CASE k = -5 -> 67    [] k = -4 -> 180   [] k = -3 -> 474
          [] k = -2 -> 1192  [] k = -1 -> 2689  [] k = 0 -> 5000
          [] k = 1 -> 7311   [] k = 2 -> 8808   [] k = 3 -> 9526
          [] k = 4 -> 9820   [] k = 5 -> 9933]

\* a is in hundredths; the arguments that occur lie in -5.00 .. 5.00
sigmoid(a) ==
    LET c == Max(-500, Min(500, a))
        lo == c \div 100
        hi == Min(lo + 1, 5)
        frac == c - lo * 100
    IN  SigmoidTable[lo] + ((SigmoidTable[hi] - SigmoidTable[lo]) * frac) \div 100

value_at_time(seg, time) ==
    LET scale_factor == seg.end - seg.start
        x_value == (10 * 100 * time) \div seg.duration
    IN  (sigmoid(x_value + X_OFFSET * 100) * scale_factor) \div 10000 + seg.start

in_segment(seg, time) == time <= seg.duration

travel_direction(seg) == IF seg.start < seg.end THEN 1 ELSE -1

-----------------------------------------------------------------------------
(* Path generator.  draw holds the random numbers the generator consumes:  *)
(* num (segment count), rin (random_in), near[k] = [decrease, r] for the   *)
(* k-th random_near call, out (slightly_out), all f32 draws in thousandths *)

\* the generator as it would be with the floor of the segment count one too low
generate_floor_off_by_one(range, time_to_drift, drift_out, max_path_segments, min_path_segments, draw) ==
    LET num_segments == Max((max_path_segments * draw.num) \div 1000, min_path_segments - 1)
        duration == time_to_drift \div num_segments
        value[k \in 0 .. (num_segments - 1)] ==
            IF k = 0 THEN random_in(range, draw.rin)
            ELSE random_near(range, value[k - 1], draw.near[k].decrease, draw.near[k].r)
        segments == [k \in 1 .. (num_segments - 1) |->
                        [start |-> value[k - 1], end |-> value[k], duration |-> duration]]
        last_value == value[num_segments - 1]
        last_segment == [start |-> last_value,
                         end |-> slightly_out(range, last_value, draw.out),
                         duration |-> duration]
    IN  IF drift_out THEN Append(segments, last_segment) ELSE segments

\* the generator as it would be if it divided the time among the wandering segments only
generate_duration_off_by_one(range, time_to_drift, drift_out, max_path_segments, min_path_segments, draw) ==
    LET num_segments == Max((max_path_segments * draw.num) \div 1000, min_path_segments)
        duration == time_to_drift \div (num_segments - 1)
        value[k \in 0 .. (num_segments - 1)] ==
            IF k = 0 THEN random_in(range, draw.rin)
            ELSE random_near(range, value[k - 1], draw.near[k].decrease, draw.near[k].r)
        segments == [k \in 1 .. (num_segments - 1) |->
                        [start |-> value[k - 1], end |-> value[k], duration |-> duration]]
        last_value == value[num_segments - 1]
        last_segment == [start |-> last_value,
                         end |-> slightly_out(range, last_value, draw.out),
                         duration |-> duration]
    IN  IF drift_out THEN Append(segments, last_segment) ELSE segments

generate_random_dial_path(range, time_to_drift, drift_out, max_path_segments, min_path_segments, draw) ==
    LET num_segments == Max((max_path_segments * draw.num) \div 1000, min_path_segments)
        duration == time_to_drift \div num_segments
        value[k \in 0 .. (num_segments - 1)] ==
            IF k = 0 THEN random_in(range, draw.rin)
            ELSE random_near(range, value[k - 1], draw.near[k].decrease, draw.near[k].r)
        segments == [k \in 1 .. (num_segments - 1) |->
                        [start |-> value[k - 1], end |-> value[k], duration |-> duration]]
        last_value == value[num_segments - 1]
        last_segment == [start |-> last_value,
                         end |-> slightly_out(range, last_value, draw.out),
                         duration |-> duration]
    IN  IF drift_out THEN Append(segments, last_segment) ELSE segments

-----------------------------------------------------------------------------
(* Dial *)

\* draws[k] is the randomness of the k-th trial's path
new(row_id, col_id, in_range, trial_times, draws) ==
    [value |-> middle(in_range),
     row_id |-> row_id,
     col_id |-> col_id,
     in_range |-> in_range,
     trial_paths |-> [k \in 1 .. Len(trial_times) |->
                         generate_random_dial_path(in_range, trial_times[k], TRUE,
                             MAX_PATH_SEGMENTS, MIN_PATH_SEGMENTS, draws[k])],
     segment_time |-> 0,
     travel_direction |-> 1,
     out_of_range |-> FALSE]

\* reset as it would be if it dropped the newest trial instead of the active one
reset_pops_back(dial) ==
    LET n == Len(dial.trial_paths)
        popped_paths == IF n = 0 THEN <<>> ELSE SubSeq(dial.trial_paths, 1, n - 1)
    IN  [dial EXCEPT !.trial_paths = popped_paths,
                     !.value = IF popped_paths = <<>> THEN middle(dial.in_range) ELSE @]

reset(dial) ==
    LET popped_paths == IF dial.trial_paths = <<>> THEN <<>> ELSE Tail(dial.trial_paths)
    IN  [dial EXCEPT !.trial_paths = popped_paths,
                     !.value = IF popped_paths = <<>> THEN middle(dial.in_range) ELSE @]

\* the segment `current` that update reads (path.front()), NoSeg when there is none
current(dial) ==
    IF dial.trial_paths # <<>> /\ Head(dial.trial_paths) # <<>>
    THEN Head(Head(dial.trial_paths))
    ELSE NoSeg

\* update as it would be if an expired segment's time carried over to the next
update_carries_time(dial, delta_time) ==
    LET segment_time == dial.segment_time + delta_time
        timed == [dial EXCEPT !.segment_time = segment_time]
    IN  IF dial.trial_paths # <<>>
        THEN LET path == Head(dial.trial_paths)
             IN  IF path # <<>>
                 THEN IF in_segment(Head(path), segment_time)
                      THEN [timed EXCEPT !.value = value_at_time(Head(path), segment_time)]
                      ELSE [timed EXCEPT !.travel_direction = travel_direction(Head(path)),
                                         !.trial_paths[1] = Tail(path)]
                 ELSE timed
        ELSE [timed EXCEPT !.value = @ + dial.travel_direction * DRIFT_RATE * delta_time]

\* the dial after update(delta_time)
update(dial, delta_time) ==
    LET segment_time == dial.segment_time + delta_time
        timed == [dial EXCEPT !.segment_time = segment_time]
    IN  IF dial.trial_paths # <<>>
        THEN LET path == Head(dial.trial_paths)
             IN  IF path # <<>>
                 THEN IF in_segment(Head(path), segment_time)
                      THEN [timed EXCEPT !.value = value_at_time(Head(path), segment_time)]
                      ELSE [timed EXCEPT !.travel_direction = travel_direction(Head(path)),
                                         !.trial_paths[1] = Tail(path),
                                         !.segment_time = 0]
                 ELSE timed
        ELSE [timed EXCEPT !.value = @ + dial.travel_direction * DRIFT_RATE * delta_time]

\* the value update returns, from the dial as update left it
update_returns(dial) == ~dial.out_of_range /\ ~contains(dial.in_range, dial.value)

-----------------------------------------------------------------------------
(* Inputs: the random draws of the generated paths *)

NearDraws == {[decrease |-> FALSE, r |-> 999], [decrease |-> TRUE, r |-> 400]}

\* every random_near call of one path gets the same draw
PathDraws ==
    {[num |-> n, rin |-> 300, near |-> [k \in 1 .. (MAX_PATH_SEGMENTS - 1) |-> d], out |-> o] :
        n \in {0, 625}, d \in NearDraws, o \in {10, 999}}

\* the draws of the dials of the loop
LoopDraws == {d \in PathDraws : d.out = 999 /\ d.near[1].decrease}

default_range(i) == DialRange(i * RANGE_STEP, i * RANGE_STEP + RANGE_SIZE)

\* the threads and the lock where the operations are called directly
NoThreads ==
    /\ mutex = [holder |-> "none", poisoned |-> FALSE]
    /\ model_pc = "off"
    /\ ui_pc = "off"
    /\ tick = NoTick
    /\ skipped = FALSE

-----------------------------------------------------------------------------
(* One dial driven by arbitrary update and reset calls *)

InitDial ==
    /\ \E n \in 1 .. MaxTrials :
         \E draws \in [1 .. n -> PathDraws] :
           \E times \in [1 .. n -> TrialTimes] :
             dials = [i \in {0} |-> new(0, 0, default_range(1), times, draws)]
    /\ queued_alarms = <<>>
    /\ pressed_key = "none"
    /\ now = 0
    /\ last_op = [op |-> "new", dial |-> 0, delta_time |-> 0]
    /\ ret = [i \in {0} |-> FALSE]
    /\ fired = [i \in {0} |-> 0]
    /\ resets = [i \in {0} |-> 0]
    /\ elapsed = [i \in {0} |-> 0]
    /\ init_paths = [i \in {0} |-> dials[i].trial_paths]
    /\ last_seg = [i \in {0} |-> NoSeg]
    /\ raised = <<>>
    /\ popped = NoAlarm
    /\ reaction = NoReaction
    /\ fn_in = NoCall
    /\ NoThreads
    /\ fn_out = NoResult

\* update(delta_time) on dial i, with what the histories record of it
DoUpdate(i, delta_time) ==
    /\ LET after == update(dials[i], delta_time)
           r == update_returns(after)
       IN  /\ dials' = [dials EXCEPT ![i] = after]
           /\ ret' = [ret EXCEPT ![i] = r]
           /\ fired' = [fired EXCEPT ![i] = IF r THEN Min(@ + 1, 2) ELSE @]
    /\ last_seg' = [last_seg EXCEPT ![i] = current(dials[i])]
    /\ last_op' = [op |-> "update", dial |-> i, delta_time |-> delta_time]
    /\ UNCHANGED <<queued_alarms, pressed_key, now, resets, init_paths,
                   raised, popped, reaction, pure_vars, lock_vars>>

Update(i, delta_time) ==
    /\ dials[i].segment_time + delta_time <= MaxSegmentTime
    /\ DoUpdate(i, delta_time)
    /\ UNCHANGED elapsed

Reset(i) ==
    /\ resets[i] <= Len(init_paths[i])
    /\ dials' = [dials EXCEPT ![i] = reset(dials[i])]
    /\ fired' = [fired EXCEPT ![i] = 0]
    /\ resets' = [resets EXCEPT ![i] = @ + 1]
    /\ UNCHANGED elapsed
    /\ last_op' = [op |-> "reset", dial |-> i, delta_time |-> 0]
    /\ UNCHANGED <<queued_alarms, pressed_key, now, ret, init_paths, last_seg,
                   raised, popped, reaction, pure_vars, lock_vars>>

NextDial ==
    \/ \E i \in DOMAIN dials : \E delta_time \in DeltaTimes : Update(i, delta_time)
    \/ \E i \in DOMAIN dials : Reset(i)

SpecDial == InitDial /\ [][NextDial]_vars

-----------------------------------------------------------------------------
(* One dial run through its first trial by update calls alone, timed *)

TimedUpdate(i, delta_time) ==
    /\ elapsed[i] + delta_time <= MaxElapsed
    /\ DoUpdate(i, delta_time)
    /\ elapsed' = [elapsed EXCEPT ![i] = @ + delta_time]

NextTrial ==
    \E i \in DOMAIN dials : \E delta_time \in TrialDeltaTimes : TimedUpdate(i, delta_time)

SpecTrial == InitDial /\ [][NextTrial]_vars

-----------------------------------------------------------------------------
(* The simulation loop `model` over the shared state, and the key the     *)
(* rendering/input loop leaves in pressed_key                              *)

\* clear_key of the alarm of dial i: the default configuration gives dial i
\* (counted from 1) the alarm named i, whose clear_key is the digit i
clear_key(i) == <<"1", "2", "3", "4", "5">>[i + 1]

\* the alarm a dial's update hands to the loop when it reports the transition
Alarm(dial_id, time) ==
    [dial_id |-> dial_id, time |-> time, correct_key |-> clear_key(dial_id)]

DialReaction(dial_id, millis, correct, key) ==
    [dial_id |-> dial_id, millis |-> millis, correct |-> correct, key |-> key]

\* for dial in state.dials.iter_mut() { dial.update(delta_time) }
update_dials(ds, delta_time) == [i \in DOMAIN ds |-> update(ds[i], delta_time)]

\* the alarms the updated dials ds hand over, in dial list order
collect_alarms(ds, time) ==
    LET order == [k \in 1 .. Cardinality(DOMAIN ds) |-> k - 1]
        reporting == SelectSeq(order, LAMBDA i : update_returns(ds[i]))
    IN  [k \in 1 .. Len(reporting) |-> Alarm(reporting[k], time)]

\* resolve as it would be if it took the newest alarm
resolve_pops_back(ds, q, key, time) ==
    IF key # "none" /\ q # <<>>
    THEN LET alarm == q[Len(q)]
             millis == (time - alarm.time) * 1000
         IN  [dials |-> [ds EXCEPT ![alarm.dial_id] = reset(@)],
              queued_alarms |-> SubSeq(q, 1, Len(q) - 1),
              popped |-> alarm,
              reaction |-> DialReaction(alarm.dial_id, millis, alarm.correct_key = key, key)]
    ELSE [dials |-> ds, queued_alarms |-> q, popped |-> NoAlarm, reaction |-> NoReaction]

\* resolve as it would be if it did not look at pressed_key first
resolve_without_key(ds, q, key, time) ==
    IF q # <<>>
    THEN LET alarm == Head(q)
             millis == (time - alarm.time) * 1000
         IN  [dials |-> [ds EXCEPT ![alarm.dial_id] = reset(@)],
              queued_alarms |-> Tail(q),
              popped |-> alarm,
              reaction |-> DialReaction(alarm.dial_id, millis, alarm.correct_key = key, key)]
    ELSE [dials |-> ds, queued_alarms |-> q, popped |-> NoAlarm, reaction |-> NoReaction]

\* resolve as it would be if only the matching key resolved the front alarm
resolve_requires_match(ds, q, key, time) ==
    IF key # "none" /\ q # <<>> /\ Head(q).correct_key = key
    THEN LET alarm == Head(q)
             millis == (time - alarm.time) * 1000
         IN  [dials |-> [ds EXCEPT ![alarm.dial_id] = reset(@)],
              queued_alarms |-> Tail(q),
              popped |-> alarm,
              reaction |-> DialReaction(alarm.dial_id, millis, TRUE, key)]
    ELSE [dials |-> ds, queued_alarms |-> q, popped |-> NoAlarm, reaction |-> NoReaction]

\* if let Some(key) = pressed_key { if let Some(alarm) = queued_alarms.pop_front() {..} }
\* on the updated dials ds and the extended queue q at time `time`
resolve(ds, q, key, time) ==
    IF key # "none" /\ q # <<>>
    THEN LET alarm == Head(q)
             millis == (time - alarm.time) * 1000
         IN  [dials |-> [ds EXCEPT ![alarm.dial_id] = reset(@)],
              queued_alarms |-> Tail(q),
              popped |-> alarm,
              reaction |-> DialReaction(alarm.dial_id, millis, alarm.correct_key = key, key)]
    ELSE [dials |-> ds, queued_alarms |-> q, popped |-> NoAlarm, reaction |-> NoReaction]

Init ==
    /\ \E n \in 1 .. MaxTrials :
         \E draws \in [DialIds -> [1 .. n -> LoopDraws]] :
           \E times \in [1 .. n -> TrialTimes] :
             dials = [i \in DialIds |-> new(0, i, default_range(i + 1), times, draws[i])]
    /\ queued_alarms = <<>>
    /\ pressed_key = "none"
    /\ now = 0
    /\ last_op = [op |-> "new", dial |-> -1, delta_time |-> 0]
    /\ ret = [i \in DialIds |-> FALSE]
    /\ fired = [i \in DialIds |-> 0]
    /\ resets = [i \in DialIds |-> 0]
    /\ elapsed = [i \in DialIds |-> 0]
    /\ init_paths = [i \in DialIds |-> dials[i].trial_paths]
    /\ last_seg = [i \in DialIds |-> NoSeg]
    /\ raised = <<>>
    /\ popped = NoAlarm
    /\ reaction = NoReaction
    /\ fn_in = NoCall
    /\ NoThreads
    /\ fn_out = NoResult

\* one iteration of the loop, delta_time after the previous one
model(delta_time) ==
    \E time \in {now + delta_time} :
    \E updated \in {update_dials(dials, delta_time)} :
    \E alarms \in {collect_alarms(updated, time)} :
    \E out \in {resolve(updated, queued_alarms \o alarms, pressed_key, time)} :
    \E reset_id \in {out.popped.dial_id} :
        /\ time <= MaxTime
        /\ Len(out.queued_alarms) <= MaxQueue
        /\ dials' = out.dials
        /\ queued_alarms' = out.queued_alarms
        /\ now' = time
        /\ raised' = alarms
        /\ popped' = out.popped
        /\ reaction' = out.reaction
        /\ ret' = [i \in DialIds |-> update_returns(updated[i])]
        /\ fired' = [i \in DialIds |->
                        IF i = reset_id THEN 0
                        ELSE IF update_returns(updated[i]) THEN Min(fired[i] + 1, 2)
                        ELSE fired[i]]
        /\ resets' = [i \in DialIds |-> IF i = reset_id THEN resets[i] + 1 ELSE resets[i]]
        /\ last_seg' = [i \in DialIds |-> current(dials[i])]
        /\ UNCHANGED <<pressed_key, last_op, elapsed, init_paths, pure_vars, lock_vars>>

\* the rendering/input loop writes the key it sees pressed, or None
SetPressedKey(key) ==
    /\ key # pressed_key
    /\ pressed_key' = key
    /\ UNCHANGED <<dials, queued_alarms, now, last_op, ret, fired, resets, elapsed,
                   init_paths, last_seg, raised, popped, reaction, pure_vars, lock_vars>>

Next ==
    \/ \E delta_time \in LoopDeltaTimes : model(delta_time)
    \/ \E key \in Keys \cup {"none"} : SetPressedKey(key)

Spec == Init /\ [][Next]_vars

-----------------------------------------------------------------------------
(* Claims about one dial *)

Dial(i) == dials[i]

ActiveTrialExhausted(d) == d.trial_paths # <<>> /\ Head(d.trial_paths) = <<>>

RECURSIVE SumDurations(_)
SumDurations(path) ==
    IF path = <<>> THEN 0 ELSE Head(path).duration + SumDurations(Tail(path))

\* C1: without an intervening reset(), update returns true at most once: after
\* the first true return every later update returns false, although the value
\* stays outside in_range.
C1_ReportsOnce == \A i \in DOMAIN dials : fired[i] <= 1

\* C2: once update has reported the out-of-range transition, and until the
\* next reset(), the dial's out_of_range latch is true.
C2_LatchSet == \A i \in DOMAIN dials : fired[i] >= 1 => Dial(i).out_of_range

\* C3: a dial updated with positive delta_time and not reset has returned true
\* from some update by the time the trial's total time plus the final
\* segment's duration has elapsed, with its value outside in_range at that call.
C3_DriftOutAlarms ==
    \A i \in DOMAIN dials :
        LET path == init_paths[i][1]
        IN  /\ elapsed[i] >= SumDurations(path) + path[Len(path)].duration
                => fired[i] >= 1
            /\ ret[i] => ~contains(Dial(i).in_range, Dial(i).value)

\* C4: after reset() has left a dial without trials, its value is
\* in_range.middle() and stays there under every later update, and update
\* reports nothing more.
C4_IdleFrozen ==
    \A i \in DOMAIN dials :
        (resets[i] >= 1 /\ Dial(i).trial_paths = <<>>)
            => (Dial(i).value = middle(Dial(i).in_range) /\ fired[i] = 0)

\* C5: an update of a dial whose active trial exists but has no segment left
\* changes value by travel_direction * fixed_rate * delta_time.
C5_FreeDrift ==
    [][\A i \in DOMAIN dials :
          (last_op'.op = "update" /\ last_op'.dial = i /\ ActiveTrialExhausted(Dial(i)))
              => dials'[i].value = Dial(i).value
                    + Dial(i).travel_direction * DRIFT_RATE * last_op'.delta_time]_vars

\* C6: after reset() on a dial with trials remaining out_of_range is false, and
\* update returns true exactly once for the excursion of the next trial.
C6_ResetRearms ==
    \A i \in DOMAIN dials :
        (resets[i] >= 1 /\ Dial(i).trial_paths # <<>>)
            => (~Dial(i).out_of_range /\ fired[i] <= 1)

\* C7: each reset() removes exactly the front trial (the one that was active),
\* the trials behind it are untouched, and every segment an update reads is a
\* segment of the trial that became active by the resets so far, at the
\* position that trial has been consumed to: no segment of a discarded trial
\* is read again.
C7_ResetPopsActiveTrial ==
    \A i \in DOMAIN dials :
        LET k == resets[i]
            paths == Dial(i).trial_paths
            orig == init_paths[i]
        IN  /\ Len(paths) = Max(Len(orig) - k, 0)
            /\ \A j \in 2 .. Len(paths) : paths[j] = orig[k + j]
            /\ paths # <<>> =>
                 LET n == Len(orig[k + 1])
                     left == Len(paths[1])
                 IN  /\ left <= n
                     /\ paths[1] = SubSeq(orig[k + 1], n - left + 1, n)
                     /\ (last_op.op = "update" /\ last_op.dial = i /\ last_seg[i] # NoSeg)
                          => \E at \in {n - left, n - left + 1} \cap (1 .. n) :
                                last_seg[i] = orig[k + 1][at]

\* C7 witness: after a reset that left a trial, an update read a segment
C7_Witness ==
    \E i \in DOMAIN dials :
        /\ resets[i] >= 1
        /\ Dial(i).trial_paths # <<>>
        /\ last_op.op = "update" /\ last_op.dial = i
        /\ last_seg[i] # NoSeg

-----------------------------------------------------------------------------
(* Claims about the loop.  A step that changes `now` is one tick; the queue *)
(* the tick resolves from is the old queue extended by the alarms raised.   *)

\* alarm a was raised before alarm b: in an earlier tick, or in the same tick
\* by a dial earlier in the dial list
\* an update(delta_time) step on dial i that finds the current segment expired
ExpiredSegmentStep(i) ==
    /\ last_op'.op = "update"
    /\ last_op'.dial = i
    /\ current(dials[i]) # NoSeg
    /\ ~in_segment(current(dials[i]), dials[i].segment_time + last_op'.delta_time)

\* C16: the update that finds the current segment expired records the sign of
\* that segment's motion as travel_direction, removes exactly that segment from
\* the active trial, sets segment_time to 0, and leaves value, in_range and the
\* other trials unchanged.
C16_ExpiredSegmentFrame ==
    [][\A i \in DOMAIN dials :
         ExpiredSegmentStep(i) =>
            LET before == dials[i]
                after == dials'[i]
                seg == Head(Head(before.trial_paths))
            IN  /\ after.travel_direction = (IF seg.end > seg.start THEN 1 ELSE -1)
                /\ Head(after.trial_paths) = Tail(Head(before.trial_paths))
                /\ Tail(after.trial_paths) = Tail(before.trial_paths)
                /\ after.segment_time = 0
                /\ after.value = before.value
                /\ after.in_range = before.in_range
                /\ after.out_of_range = before.out_of_range]_vars

\* C16 witness: an update has just dropped an expired falling segment of a
\* trial that is not the dial's last, after the value had moved
C16_Witness ==
    /\ last_op.op = "update"
    /\ last_seg[0] # NoSeg
    /\ last_seg[0].end < last_seg[0].start
    /\ Dial(0).segment_time = 0
    /\ Dial(0).travel_direction = -1
    /\ Len(Dial(0).trial_paths) >= 2
    /\ Dial(0).value # middle(Dial(0).in_range)

\* C20: update never returns true while the active trial still holds a segment
\* before its final one; in particular not on the first update after a reset
\* that leaves trials remaining.
C20_AlarmOnlyFromDriftOut ==
    \A i \in DOMAIN dials :
        (/\ last_op.op = "update"
         /\ last_op.dial = i
         /\ Dial(i).trial_paths # <<>>
         /\ Len(Head(Dial(i).trial_paths)) >= 2) => ~ret[i]

RaisedBefore(a, b) ==
    a.time < b.time \/ (a.time = b.time /\ a.dial_id < b.dial_id)

InRaisedOrder(q) == \A j, k \in 1 .. Len(q) : j < k => RaisedBefore(q[j], q[k])

TrialsLeft(ds, i) == Len(ds[i].trial_paths)

\* C8: the queued alarms are in the order they were raised, and a tick with a
\* key pressed and a non-empty queue removes the front alarm, the earliest
\* raised one still pending, whichever key it is.
C8_AlarmsFifo ==
    [][now' # now =>
          LET q == queued_alarms \o raised'
          IN  /\ InRaisedOrder(q)
              /\ InRaisedOrder(queued_alarms')
              /\ (pressed_key # "none" /\ q # <<>>) =>
                    /\ popped' = Head(q)
                    /\ queued_alarms' = Tail(q)
                    /\ \A k \in 1 .. Len(queued_alarms') :
                          RaisedBefore(popped', queued_alarms'[k])]_vars

\* C8 witness: a key that is not the front alarm's key resolved the front alarm
\* while a later alarm of the other dial stayed queued
C8_Witness ==
    /\ popped # NoAlarm
    /\ queued_alarms # <<>>
    /\ Head(queued_alarms).dial_id # popped.dial_id
    /\ reaction.key = Head(queued_alarms).correct_key
    /\ RaisedBefore(popped, Head(queued_alarms))

\* C9: one tick shortens the alarm queue by at most one alarm and resets at
\* most one dial; with no key pressed or nothing queued it removes no alarm and
\* resets no dial.
C9_OneAlarmPerTick ==
    [][now' # now =>
          LET q == queued_alarms \o raised'
              reset_dials == {i \in DialIds : resets'[i] # resets[i]
                                  \/ TrialsLeft(dials', i) # TrialsLeft(dials, i)}
          IN  /\ Len(queued_alarms') >= Len(q) - 1
              /\ Len(queued_alarms') >= Len(queued_alarms) - 1
              /\ Cardinality(reset_dials) <= 1
              /\ (pressed_key = "none" \/ q = <<>>) =>
                    /\ popped' = NoAlarm
                    /\ reaction' = NoReaction
                    /\ queued_alarms' = q
                    /\ reset_dials = {}]_vars

\* C9 witness: a tick resolved one alarm and left two or more queued
C9_Witness == popped # NoAlarm /\ Len(queued_alarms) >= 2

\* C10: a tick with a key pressed and a non-empty queue resolves the front
\* alarm whether or not the key matches: it resets the dial the alarm names and
\* no other, and its reaction record carries that dial_id, the pressed key and
\* correct = (pressed_key = alarm.correct_key).
C10_ResolvesFront ==
    [][(now' # now /\ pressed_key # "none" /\ queued_alarms \o raised' # <<>>) =>
          LET alarm == Head(queued_alarms \o raised')
              id == alarm.dial_id
          IN  /\ popped' = alarm
              /\ reaction'.dial_id = id
              /\ reaction'.key = pressed_key
              /\ reaction'.correct = (pressed_key = alarm.correct_key)
              /\ resets'[id] = resets[id] + 1
              /\ TrialsLeft(dials', id) = Max(TrialsLeft(dials, id) - 1, 0)
              /\ TrialsLeft(dials', id) = 0
                    => dials'[id].value = middle(dials'[id].in_range)
              /\ \A j \in DialIds \ {id} :
                    /\ resets'[j] = resets[j]
                    /\ dials'[j] = update(dials[j], now' - now)]_vars

\* C10 witness: an alarm resolved by a key that is not its correct_key
C10_Witness ==
    /\ popped # NoAlarm
    /\ reaction.dial_id = popped.dial_id
    /\ reaction.key # popped.correct_key
    /\ ~reaction.correct
    /\ resets[popped.dial_id] >= 1

------------------------------------------------------------------------\* C18: the alarm queue holds at most one pending alarm per dial, and a dial
\* has a queued alarm only while its value is out of range.
C18_OnePendingAlarmPerDial ==
    /\ \A j, k \in 1 .. Len(queued_alarms) :
          j < k => queued_alarms[j].dial_id # queued_alarms[k].dial_id
    /\ \A j \in 1 .. Len(queued_alarms) :
          ~contains(Dial(queued_alarms[j].dial_id).in_range,
                    Dial(queued_alarms[j].dial_id).value)

-----
(* The path generator run by itself on drawn arguments *)

\* the state of the dials and of the loop where neither exists
NoProgram ==
    /\ dials = <<>>
    /\ queued_alarms = <<>>
    /\ pressed_key = "none"
    /\ now = 0
    /\ last_op = [op |-> "none", dial |-> -1, delta_time |-> 0]
    /\ ret = <<>>
    /\ fired = <<>>
    /\ resets = <<>>
    /\ elapsed = <<>>
    /\ init_paths = <<>>
    /\ last_seg = <<>>
    /\ raised = <<>>
    /\ popped = NoAlarm
    /\ reaction = NoReaction
    /\ NoThreads

program_vars == <<dials, queued_alarms, pressed_key, now, last_op, ret, fired, resets,
                  elapsed, init_paths, last_seg, raised, popped, reaction>>

\* the extreme draws of random_near: either direction, nothing or nearly half the width
GenNearDraws == {[decrease |-> d, r |-> r] : d \in BOOLEAN, r \in {0, 999}}

\* the segment count a draw of num gives
num_segments_of(num) == Max((MAX_PATH_SEGMENTS * num) \div 1000, MIN_PATH_SEGMENTS)

InitGen ==
    /\ NoProgram
    /\ \E num \in {0, 500, 625, 750, 999}, rin \in {0, 500, 999}, out \in {0, 1, 999} :
       \E near \in [1 .. (num_segments_of(num) - 1) -> GenNearDraws] :
       \E drift_out \in BOOLEAN, time_to_drift \in TrialTimes :
          fn_in = [fn |-> "generate_random_dial_path", range |-> default_range(1),
                   time_to_drift |-> time_to_drift, drift_out |-> drift_out,
                   max_path_segments |-> MAX_PATH_SEGMENTS,
                   min_path_segments |-> MIN_PATH_SEGMENTS,
                   draw |-> [num |-> num, rin |-> rin, near |-> near, out |-> out]]
    /\ fn_out = NoResult

Generate ==
    /\ ~fn_out.done
    /\ fn_out' = [done |-> TRUE,
                  value |-> generate_random_dial_path(fn_in.range, fn_in.time_to_drift,
                                fn_in.drift_out, fn_in.max_path_segments,
                                fn_in.min_path_segments, fn_in.draw)]
    /\ UNCHANGED <<fn_in, program_vars, lock_vars>>

NextGen == Generate

SpecGen == InitGen /\ [][NextGen]_vars

-----------------------------------------------------------------------------
(* Claims about the generated path *)

InRange(range, seg) == contains(range, seg.start) /\ contains(range, seg.end)

\* C11: with drift_out the final segment ends outside the range, beyond the
\* bound that is closer to the value entering it, for every draw of the amount.
C11_DriftOutEndsOutside ==
    (fn_out.done /\ fn_in.drift_out) =>
        LET path == fn_out.value
            final == path[Len(path)]
            range == fn_in.range
        IN  /\ ~contains(range, final.end)
            /\ final.start - range.start < range.end - final.start => final.end < range.start
            /\ range.end - final.start < final.start - range.start => final.end > range.end

\* C12: for either value of drift_out the returned queue has between
\* min_segments and max_segments segments.
C12_SegmentCount ==
    fn_out.done =>
        /\ fn_in.min_path_segments <= Len(fn_out.value)
        /\ Len(fn_out.value) <= fn_in.max_path_segments

\* C13: for either value of drift_out all segments of the returned queue have
\* one duration and the durations of the segments in it sum to total_time.
C13_DurationsSum ==
    fn_out.done =>
        LET path == fn_out.value
        IN  /\ \A j, k \in 1 .. Len(path) : path[j].duration = path[k].duration
            /\ SumDurations(path) = fn_in.time_to_drift

\* the segment count the generator chose: the final segment is left out of the
\* queue when drift_out is false
ChosenCount == Len(fn_out.value) + (IF fn_in.drift_out THEN 0 ELSE 1)

\* C12 (amended): the segment count n the generator chooses satisfies
\* min_segments <= n <= max_segments; the returned queue has n segments with
\* drift_out and n - 1 without.
C12_ChosenCount ==
    fn_out.done =>
        /\ fn_in.min_path_segments <= ChosenCount
        /\ ChosenCount <= fn_in.max_path_segments
        /\ Len(fn_out.value) >= fn_in.min_path_segments - 1

\* C12 witness: without drift_out the queue is one short of min_segments
C12_Witness ==
    /\ fn_out.done
    /\ ~fn_in.drift_out
    /\ Len(fn_out.value) = fn_in.min_path_segments - 1

\* C13 (amended): every segment has the duration total_time / n for the chosen
\* count n; with drift_out the durations in the queue sum to total_time, and
\* without it the n - 1 segments sum to total_time less one segment's duration.
C13_DurationsOfChosenCount ==
    fn_out.done =>
        LET path == fn_out.value
        IN  /\ \A k \in 1 .. Len(path) : path[k].duration * ChosenCount = fn_in.time_to_drift
            /\ fn_in.drift_out => SumDurations(path) = fn_in.time_to_drift
            /\ ~fn_in.drift_out =>
                  SumDurations(path) = fn_in.time_to_drift - path[1].duration

\* C13 witness: a queue without the final segment, whose durations sum to
\* less than total_time
C13_Witness ==
    /\ fn_out.done
    /\ ~fn_in.drift_out
    /\ fn_out.value # <<>>
    /\ SumDurations(fn_out.value) < fn_in.time_to_drift

\* C19: a generated path is contiguous, starts inside the range, and every
\* segment other than the final drift-out segment starts and ends inside it.
C19_PathStaysInRange ==
    fn_out.done =>
        LET path == fn_out.value
            range == fn_in.range
            wander == IF fn_in.drift_out THEN Len(path) - 1 ELSE Len(path)
        IN  /\ \A k \in 1 .. (Len(path) - 1) : path[k].end = path[k + 1].start
            /\ contains(range, path[1].start)
            /\ \A k \in 1 .. wander : InRange(range, path[k])
            /\ fn_in.drift_out => contains(range, path[Len(path)].start)

\* C19 witness: a path in which random_near turned a step back into the range
\* (the draw said increase and the segment decreases)
C19_Witness ==
    /\ fn_out.done
    /\ fn_in.drift_out
    /\ \E k \in 1 .. (Len(fn_out.value) - 1) :
          /\ ~fn_in.draw.near[k].decrease
          /\ fn_out.value[k].end < fn_out.value[k].start

-----------------------------------------------------------------------------
(* dial_id of two dials at drawn grid positions *)

\* a u32 is a pair <<high, low>> of 16-bit halves and a u64 four of them, most
\* significant first
RECURSIVE bit_or(_, _, _)
bit_or(a, b, bits) ==
    IF bits = 0 THEN 0
    ELSE (IF a % 2 = 1 \/ b % 2 = 1 THEN 1 ELSE 0) + 2 * bit_or(a \div 2, b \div 2, bits - 1)

\* x as u64
as_u64(x) == <<0, 0, x[1], x[2]>>

\* w << n on u64: the bits shifted past bit 63 are lost
shl_u64(w, n) ==
    LET q == n \div 16
        r == n % 16
        part(i) == IF i >= 1 /\ i <= 4 THEN w[i] ELSE 0
    IN  [i \in 1 .. 4 |-> ((part(i + q) * 2^r) % 65536) + (part(i + q + 1) \div 2^(16 - r))]

\* a | b on u64
or_u64(a, b) == [i \in 1 .. 4 |-> bit_or(a[i], b[i], 16)]

\* dial_id as it would be if the row were shifted by half the width of col_id
dial_id_half_shift(dial) == or_u64(shl_u64(as_u64(dial.row_id), 16), as_u64(dial.col_id))

dial_id(dial) == or_u64(shl_u64(as_u64(dial.row_id), 32), as_u64(dial.col_id))

\* u32 values 0, 1, 65535, 65536, 65537, 2^32 - 65536, ..., 2^32 - 1
U32s == {<<high, low>> : high \in {0, 1, 65535}, low \in {0, 1, 65535}}

InitId ==
    /\ NoProgram
    /\ \E row_a \in U32s, col_a \in U32s, row_b \in U32s, col_b \in U32s :
          fn_in = [fn |-> "dial_id",
                   a |-> [row_id |-> row_a, col_id |-> col_a],
                   b |-> [row_id |-> row_b, col_id |-> col_b]]
    /\ fn_out = NoResult

CallDialId ==
    /\ ~fn_out.done
    /\ fn_out' = [done |-> TRUE, value |-> <<dial_id(fn_in.a), dial_id(fn_in.b)>>]
    /\ UNCHANGED <<fn_in, program_vars, lock_vars>>

NextId == CallDialId

SpecId == InitId /\ [][NextId]_vars

\* C17: dial_id() of two dials is equal if and only if both their row_id and
\* their col_id are equal, and the packed id holds the row in its upper 32
\* bits and the column in its lower 32 bits, with no bit lost.
C17_DialIdInjective ==
    fn_out.done =>
        /\ (fn_out.value[1] = fn_out.value[2]) <=>
              (fn_in.a.row_id = fn_in.b.row_id /\ fn_in.a.col_id = fn_in.b.col_id)
        /\ fn_out.value[1] = fn_in.a.row_id \o fn_in.a.col_id
        /\ fn_out.value[2] = fn_in.b.row_id \o fn_in.b.col_id

\* C17 witness: two dials whose positions are each other's transposes, one row
\* having its top bit set, get different ids
C17_Witness ==
    /\ fn_out.done
    /\ fn_in.a.row_id = fn_in.b.col_id
    /\ fn_in.a.col_id = fn_in.b.row_id
    /\ fn_in.a.row_id = <<65535, 65535>>
    /\ fn_in.a.col_id = <<0, 1>>
    /\ fn_out.value[1] # fn_out.value[2]

-----------------------------------------------------------------------------
(* The simulation loop and the rendering/input loop as two threads over     *)
(* STATE's Mutex, the tick taken one statement at a time                     *)

\* the part of the program's state the threads do not touch
history_vars == <<last_op, ret, fired, resets, elapsed, init_paths, last_seg, raised,
                  popped, reaction>>

\* the statements of the tick that run with the lock held
InTick == {"update", "extend", "resolve", "reset", "unlock"}

\* lock() as it would be if it did not wait for the holder
lock_never_waits(m) == TRUE

\* lock() returns only when no thread holds the mutex
lock_free(m) == m.holder = "none"

InitLock ==
    /\ \E d \in LoopDraws, time \in TrialTimes :
         dials = [i \in DialIds |-> new(0, i, default_range(i + 1), <<time>>, <<d>>)]
    /\ queued_alarms = <<>>
    /\ pressed_key = "none"
    /\ now = 0
    /\ last_op = [op |-> "new", dial |-> -1, delta_time |-> 0]
    /\ ret = [i \in DialIds |-> FALSE]
    /\ fired = [i \in DialIds |-> 0]
    /\ resets = [i \in DialIds |-> 0]
    /\ elapsed = [i \in DialIds |-> 0]
    /\ init_paths = [i \in DialIds |-> dials[i].trial_paths]
    /\ last_seg = [i \in DialIds |-> NoSeg]
    /\ raised = <<>>
    /\ popped = NoAlarm
    /\ reaction = NoReaction
    /\ fn_in = NoCall
    /\ fn_out = NoResult
    /\ mutex = [holder |-> "none", poisoned |-> FALSE]
    /\ model_pc = "sleep"
    /\ ui_pc = "lock"
    /\ tick = NoTick
    /\ skipped = FALSE

\* thread::sleep(..); let delta_time = last_update.elapsed()
ModelSleep(delta_time) ==
    /\ model_pc = "sleep"
    /\ now + delta_time <= MaxTime
    /\ Len(queued_alarms) < MaxQueue
    /\ now' = now + delta_time
    /\ tick' = [NoTick EXCEPT !.delta_time = delta_time]
    /\ model_pc' = "lock"
    /\ UNCHANGED <<dials, queued_alarms, pressed_key, mutex, ui_pc, skipped,
                   history_vars, pure_vars>>

\* if let Ok(mut state) = state.lock(): the lock is acquired
ModelLockOk ==
    /\ model_pc = "lock"
    /\ lock_free(mutex)
    /\ ~mutex.poisoned
    /\ mutex' = [mutex EXCEPT !.holder = "model"]
    /\ model_pc' = "update"
    /\ UNCHANGED <<dials, queued_alarms, pressed_key, now, ui_pc, tick, skipped,
                   history_vars, pure_vars>>

\* if let Ok(mut state) = state.lock(): lock() returns Err for a poisoned
\* mutex, the body is passed over and the loop goes on to its next iteration
ModelLockErr ==
    /\ model_pc = "lock"
    /\ lock_free(mutex)
    /\ mutex.poisoned
    /\ skipped' = TRUE
    /\ model_pc' = "sleep"
    /\ UNCHANGED <<dials, queued_alarms, pressed_key, now, mutex, ui_pc, tick,
                   history_vars, pure_vars>>

\* one turn of: for dial in state.dials.iter_mut() { if let Some(alarm) = dial.update(..) {..} }
ModelUpdateDial ==
    /\ model_pc = "update"
    /\ \E i \in {tick.next} :
       \E after \in {update(dials[i], tick.delta_time)} :
          /\ dials' = [dials EXCEPT ![i] = after]
          /\ tick' = [tick EXCEPT !.next = i + 1,
                                  !.alarms = IF update_returns(after)
                                             THEN Append(@, Alarm(i, now)) ELSE @]
          /\ model_pc' = IF i + 1 \in DOMAIN dials THEN "update" ELSE "extend"
    /\ UNCHANGED <<queued_alarms, pressed_key, now, mutex, ui_pc, skipped,
                   history_vars, pure_vars>>

\* state.queued_alarms.extend(alarms)
ModelExtend ==
    /\ model_pc = "extend"
    /\ queued_alarms' = queued_alarms \o tick.alarms
    /\ tick' = [tick EXCEPT !.alarms = <<>>]
    /\ model_pc' = "resolve"
    /\ UNCHANGED <<dials, pressed_key, now, mutex, ui_pc, skipped, history_vars, pure_vars>>

\* if let Some(key) = state.pressed_key { if let Some(alarm) = queued_alarms.pop_front()
ModelPop ==
    /\ model_pc = "resolve"
    /\ IF pressed_key # "none" /\ queued_alarms # <<>>
       THEN /\ queued_alarms' = Tail(queued_alarms)
            /\ tick' = [tick EXCEPT !.alarm = Head(queued_alarms)]
            /\ model_pc' = "reset"
       ELSE /\ model_pc' = "unlock"
            /\ UNCHANGED <<queued_alarms, tick>>
    /\ UNCHANGED <<dials, pressed_key, now, mutex, ui_pc, skipped, history_vars, pure_vars>>

\* state.dials[alarm.dial_id].reset()
ModelReset ==
    /\ model_pc = "reset"
    /\ dials' = [dials EXCEPT ![tick.alarm.dial_id] = reset(@)]
    /\ tick' = [tick EXCEPT !.alarm = NoAlarm]
    /\ model_pc' = "unlock"
    /\ UNCHANGED <<queued_alarms, pressed_key, now, mutex, ui_pc, skipped,
                   history_vars, pure_vars>>

\* the guard goes out of scope at the end of the if-let; last_update = Instant::now()
ModelUnlock ==
    /\ model_pc = "unlock"
    /\ mutex' = [mutex EXCEPT !.holder = "none"]
    /\ tick' = NoTick
    /\ model_pc' = "sleep"
    /\ UNCHANGED <<dials, queued_alarms, pressed_key, now, ui_pc, skipped,
                   history_vars, pure_vars>>

\* the rendering/input loop acquires the lock for its frame
UiLock ==
    /\ ui_pc = "lock"
    /\ lock_free(mutex)
    /\ ~mutex.poisoned
    /\ mutex' = [mutex EXCEPT !.holder = "ui"]
    /\ ui_pc' = "in"
    /\ UNCHANGED <<dials, queued_alarms, pressed_key, now, model_pc, tick, skipped,
                   history_vars, pure_vars>>

\* the frame reads the dials, writes pressed_key and releases the lock
UiFrame(key) ==
    /\ ui_pc = "in"
    /\ pressed_key' = key
    /\ mutex' = [mutex EXCEPT !.holder = "none"]
    /\ ui_pc' = "lock"
    /\ UNCHANGED <<dials, queued_alarms, now, model_pc, tick, skipped,
                   history_vars, pure_vars>>

\* the frame panics with the lock held: the guard is dropped while unwinding,
\* which releases the mutex and poisons it
UiPanic ==
    /\ ui_pc = "in"
    /\ mutex' = [holder |-> "none", poisoned |-> TRUE]
    /\ ui_pc' = "panicked"
    /\ UNCHANGED <<dials, queued_alarms, pressed_key, now, model_pc, tick, skipped,
                   history_vars, pure_vars>>

ModelHolding == ModelUpdateDial \/ ModelExtend \/ ModelPop \/ ModelReset \/ ModelUnlock

NextLock ==
    \/ \E delta_time \in LoopDeltaTimes : ModelSleep(delta_time)
    \/ ModelLockOk
    \/ ModelLockErr
    \/ ModelUpdateDial
    \/ ModelExtend
    \/ ModelPop
    \/ ModelReset
    \/ ModelUnlock
    \/ UiLock
    \/ \E key \in Keys \cup {"none"} : UiFrame(key)
    \/ UiPanic

SpecLock == InitLock /\ [][NextLock]_vars

\* a thread that holds the lock takes its next step, and a lock() call that
\* finds the mutex free again and again returns
SpecLockFair ==
    /\ SpecLock
    /\ WF_vars(ModelHolding)
    /\ WF_vars((\E key \in Keys \cup {"none"} : UiFrame(key)) \/ UiPanic)
    /\ SF_vars(ModelLockOk \/ ModelLockErr)
    /\ SF_vars(UiLock)

\* C14: a failed lock() is fatal for the simulation loop: no iteration goes by
\* without the tick's body while the loop carries on.
C14_LockFailureStopsLoop == skipped => model_pc = "stopped"

\* the rendering/input loop is never inside its frame while a tick is under
\* way, and the mutex's holder is the thread that is inside
MutualExclusion ==
    /\ ui_pc = "in" => model_pc \notin InTick /\ tick = [NoTick EXCEPT !.delta_time = tick.delta_time]
    /\ mutex.holder = "ui" <=> ui_pc = "in"
    /\ mutex.holder = "model" <=> model_pc \in InTick

====
